---- MODULE Spec2Model ----
(***************************************************************************)
(* Model of the archived-video gallery: the catalog filter, the tag        *)
(* vocabulary and the playback session of src/App.tsx, together with the   *)
(* title-only filter of src/hooks/useFilteredVideos.ts that the last App   *)
(* component of App.tsx imports.                                           *)
(*                                                                         *)
(* JavaScript strings are sequences of one-character strings, so that      *)
(* trim, toLowerCase, includes, join and sort are computed, not assumed.   *)
(***************************************************************************)
EXTENDS Integers, Sequences, FiniteSets, TLC

VARIABLES videos, query, activeTag, open, active, canPlay, elSrc, hlsInstances,
          effectHls, playing, hlsSupported, nativeHls

vars == <<videos, query, activeTag, open, active, canPlay, elSrc, hlsInstances,
          effectHls, playing, hlsSupported, nativeHls>>

(***************************************************************************)
(* Bounds.                                                                 *)
(***************************************************************************)
\* longest catalog drawn by the filter specification
MaxCatalog == 3
\* longest query the user types
MaxQueryLen == 3
\* number of streaming-client instances one run may create
MaxHls == 3

(***************************************************************************)
(* JavaScript values.                                                      *)
(***************************************************************************)
\* the characters of the modelled strings
Alphabet == {"a", "b", "A", " "}

\* an absent optional string (description?: string), and activeTag = null
Undefined == <<"undefined">>
Null == <<"null">>
\* an absent tag list (tags?: string[])
NoTags == << <<"undefined">> >>

\* UTF-16 code unit of a character, which Array.prototype.sort compares
CharCode(c) ==
  CASE c = " " -> 32
    [] c = "A" -> 65
    [] c = "a" -> 97
    [] c = "b" -> 98

\* String.prototype.toLowerCase, one character
LowerChar(c) == IF c = "A" THEN "a" ELSE c

\* String.prototype.toLowerCase
ToLowerCase(s) == [i \in 1..Len(s) |-> LowerChar(s[i])]

RECURSIVE TrimStart(_)
TrimStart(s) ==
  IF s # <<>> /\ Head(s) = " " THEN TrimStart(Tail(s)) ELSE s

RECURSIVE TrimEnd(_)
TrimEnd(s) ==
  IF s # <<>> /\ s[Len(s)] = " " THEN TrimEnd(SubSeq(s, 1, Len(s) - 1)) ELSE s

\* String.prototype.trim
Trim(s) == TrimEnd(TrimStart(s))

\* String.prototype.includes
Includes(txt, q) ==
  \E i \in 0..(Len(txt) - Len(q)) : SubSeq(txt, i + 1, i + Len(q)) = q

\* Array.prototype.includes on a tag list
TagsInclude(tags, t) == \E i \in 1..Len(tags) : tags[i] = t

RECURSIVE Join(_)
\* Array.prototype.join(" ")
Join(tags) ==
  IF tags = <<>> THEN <<>>
  ELSE IF Len(tags) = 1 THEN tags[1]
  ELSE tags[1] \o <<" ">> \o Join(Tail(tags))

\* Boolean(x) of an optional string: undefined, null and "" are falsy
Truthy(s) == s # Undefined /\ s # Null /\ s # <<>>

\* v.tags?.join(" ")
JoinedTags(v) == IF v.tags = NoTags THEN Undefined ELSE Join(v.tags)

\* v.tags?.includes(activeTag), used as a filter predicate
HasTag(v, t) == v.tags # NoTags /\ TagsInclude(v.tags, t)

(***************************************************************************)
(* The catalog filter, App.tsx:138-151.                                    *)
(***************************************************************************)
\* [v.title, v.description, v.tags?.join(" ")].filter(Boolean).some(...)
MatchesSearch(v, q) ==
  \E txt \in {v.title, v.description, JoinedTags(v)} :
     Truthy(txt) /\ Includes(ToLowerCase(txt), q)

RECURSIVE Reverse(_)
Reverse(s) == IF s = <<>> THEN <<>> ELSE Append(Reverse(Tail(s)), Head(s))

\* a filter that collects its matches with unshift instead of push
useFilteredVideosUnshift(all, q, tag) ==
  LET q2 == ToLowerCase(Trim(q))
      bySearch == IF q2 = <<>> THEN all
                  ELSE Reverse(SelectSeq(all, LAMBDA v : MatchesSearch(v, q2)))
  IN  IF ~Truthy(tag) THEN bySearch
      ELSE SelectSeq(bySearch, LAMBDA v : HasTag(v, tag))

useFilteredVideos(all, q, tag) ==
  LET q2 == ToLowerCase(Trim(q))
      bySearch == IF q2 = <<>> THEN all
                  ELSE SelectSeq(all, LAMBDA v : MatchesSearch(v, q2))
  IN  IF ~Truthy(tag) THEN bySearch
      ELSE SelectSeq(bySearch, LAMBDA v : HasTag(v, tag))

(***************************************************************************)
(* The title-only filter, hooks/useFilteredVideos.ts:10-31.                *)
(***************************************************************************)
hookFilteredVideos(all, q, tag) ==
  LET lower == ToLowerCase(q)
      list1 == IF Trim(q) # <<>>
               THEN SelectSeq(all, LAMBDA v : Includes(ToLowerCase(v.title), lower))
               ELSE all
  IN  IF Truthy(tag) THEN SelectSeq(list1, LAMBDA v : HasTag(v, tag))
      ELSE list1

(***************************************************************************)
(* The tag vocabulary.                                                     *)
(***************************************************************************)
\* Set.prototype.add on an insertion-ordered Set
SetAdd(set, t) == IF TagsInclude(set, t) THEN set ELSE Append(set, t)

RECURSIVE AddTags(_, _)
\* v.tags?.forEach((t) => set.add(t))
AddTags(set, tags) ==
  IF tags = NoTags \/ tags = <<>> THEN set
  ELSE AddTags(SetAdd(set, Head(tags)), Tail(tags))

RECURSIVE CollectTags(_, _)
\* videos.forEach((v) => ...) into one Set
CollectTags(vs, set) ==
  IF vs = <<>> THEN set
  ELSE CollectTags(Tail(vs), AddTags(set, Head(vs).tags))

RECURSIVE StrLess(_, _)
\* a < b in the order of the default comparator of Array.prototype.sort:
\* by UTF-16 code units, a proper prefix first
StrLess(a, b) ==
  IF b = <<>> THEN FALSE
  ELSE IF a = <<>> THEN TRUE
  ELSE IF CharCode(Head(a)) # CharCode(Head(b))
       THEN CharCode(Head(a)) < CharCode(Head(b))
  ELSE StrLess(Tail(a), Tail(b))

RECURSIVE InsertSorted(_, _)
InsertSorted(sorted, t) ==
  IF sorted = <<>> THEN <<t>>
  ELSE IF StrLess(t, Head(sorted)) THEN <<t>> \o sorted
  ELSE <<Head(sorted)>> \o InsertSorted(Tail(sorted), t)

RECURSIVE SortTags(_)
\* Array.prototype.sort() without a comparator
SortTags(tags) ==
  IF tags = <<>> THEN <<>>
  ELSE InsertSorted(SortTags(SubSeq(tags, 1, Len(tags) - 1)), tags[Len(tags)])

\* the tags array of UniqueTags, App.tsx:166-169
UniqueTags(vs) == SortTags(CollectTags(vs, <<>>))

\* the tags array of ArchiveHome, App.tsx:528:
\* Array.from(new Set(videos.flatMap(v => v.tags || [])))
ArchiveHomeTags(vs) == CollectTags(vs, <<>>)

(***************************************************************************)
(* Catalogs.                                                               *)
(***************************************************************************)
Mp4(uri) == [label |-> "MP4", type |-> "mp4", src |-> uri]
Hls(uri) == [label |-> "Auto (HLS)", type |-> "hls", src |-> uri]

Item(id, title, description, tags, sources) ==
  [id |-> id, title |-> title, description |-> description, tags |-> tags,
   sources |-> sources]

\* the items the filter specification builds its catalogs from
ItemPool ==
  { Item("v1", <<"A", "b">>, Undefined, << <<"b">>, <<"a">> >>, <<Mp4("v1.mp4")>>),
    Item("v2", <<"b">>, <<"a", " ", "A">>, NoTags, <<Mp4("v2.mp4")>>),
    Item("v3", <<"b", " ", "b">>, <<>>, << <<"a">>, <<"a", "b">> >>, <<Mp4("v3.mp4")>>),
    Item("v4", <<"a">>, Undefined, << <<>>, <<"b">> >>, <<Mp4("v4.mp4")>>),
    Item("v5", <<"A", "a">>, <<"b">>, <<>>, <<Mp4("v5.mp4")>>) }

\* catalogs: sequences of distinct items (ids are unique)
Catalogs ==
  UNION { { c \in [1..n -> ItemPool] :
              \A i, j \in 1..n : i # j => c[i].id # c[j].id } : n \in 0..MaxCatalog }

\* the values of the search box one keystroke away from q: a character typed
\* at its end, or its last character deleted
QueryEdits(q) ==
  {Append(q, c) : c \in IF Len(q) < MaxQueryLen THEN Alphabet ELSE {}}
    \cup (IF q = <<>> THEN {} ELSE {SubSeq(q, 1, Len(q) - 1)})

\* the catalog of the playback specification: the two entries of VIDEOS,
\* App.tsx:91-126, and two-source entries in the shape of App.tsx:472-484:
\* one with each source first, and one with two adaptive sources
VIDEOS ==
  << Item("ex-001", <<"a">>, <<"b">>, << <<"a">>, <<"b">> >>, <<Mp4("BigBuckBunny.mp4")>>),
     Item("ex-002", <<"b">>, <<"a">>, << <<"a">> >>, <<Hls("x36xhzz.m3u8")>>),
     Item("my-001", <<"A">>, <<"b">>, << <<"b">> >>,
          <<Hls("playlist.m3u8"), Mp4("video-720.mp4")>>),
     Item("my-002", <<"A", "b">>, Undefined, NoTags,
          <<Mp4("talk-720.mp4"), Hls("talk.m3u8")>>),
     Item("my-003", <<"b", "a">>, Undefined, << <<"a">> >>,
          <<Hls("live-auto.m3u8"), Hls("live-720.m3u8")>>) >>

\* the value of active while no VideoPlayer is mounted
NoSource == [label |-> "", type |-> "none", src |-> ""]

(***************************************************************************)
(* Derived values of the App components.                                   *)
(***************************************************************************)
\* const filtered = useFilteredVideos(videos, query, activeTag), App.tsx:374
filtered == useFilteredVideos(videos, query, activeTag)

\* the same line of the App component that imports the hook, App.tsx:605
filteredHook == hookFilteredVideos(videos, query, activeTag)

\* <UniqueTags videos={videos} .../>, App.tsx:411
tagButtons == UniqueTags(videos)

\* <ArchiveHome videos={filtered} .../>, App.tsx:613 and 528
homeTagButtons == ArchiveHomeTags(filteredHook)

SeqToSet(s) == {s[i] : i \in 1..Len(s)}

(***************************************************************************)
(* The playback session: the effect of VideoPlayer, App.tsx:274-307.       *)
(***************************************************************************)
\* a cleanup that forgets hls.destroy()
CleanupHlsLeak(insts, h) == insts

\* the cleanup the effect returns, on the streaming clients, App.tsx:300:
\* if (hls) hls.destroy()
CleanupHls(insts, h) ==
  IF h # 0 THEN [insts EXCEPT ![h].state = "destroyed"] ELSE insts

\* the cleanup on the element, App.tsx:301-305: el.removeAttribute("src")
CleanupSrc(src) == ""

\* the cleanup on playback, App.tsx:302 and 304: el.pause(), el.load()
CleanupPlaying(p) == FALSE

\* an effect whose last branch forgets setCanPlay(false)
AttachKeepsReady(a, insts, src0, cp, sup, nat) ==
  IF a.type = "hls"
  THEN IF sup
       THEN [hlsInstances |-> Append(insts, [src |-> a.src, state |-> "loading"]),
             effectHls |-> Len(insts) + 1, elSrc |-> src0, canPlay |-> cp]
       ELSE IF nat
       THEN [hlsInstances |-> insts, effectHls |-> 0, elSrc |-> a.src,
             canPlay |-> TRUE]
       ELSE [hlsInstances |-> insts, effectHls |-> 0, elSrc |-> src0,
             canPlay |-> cp]
  ELSE [hlsInstances |-> insts, effectHls |-> 0, elSrc |-> a.src, canPlay |-> TRUE]

\* the body of the effect, App.tsx:278-297, run for source a; insts, src0 and
\* cp are the streaming clients, the element's src and canPlay before the run
Attach(a, insts, src0, cp, sup, nat) ==
  IF a.type = "hls"
  THEN IF sup
       THEN [hlsInstances |-> Append(insts, [src |-> a.src, state |-> "loading"]),
             effectHls |-> Len(insts) + 1, elSrc |-> src0, canPlay |-> cp]
       ELSE IF nat
       THEN [hlsInstances |-> insts, effectHls |-> 0, elSrc |-> a.src,
             canPlay |-> TRUE]
       ELSE [hlsInstances |-> insts, effectHls |-> 0, elSrc |-> src0,
             canPlay |-> FALSE]
  ELSE [hlsInstances |-> insts, effectHls |-> 0, elSrc |-> a.src, canPlay |-> TRUE]

\* the run would call new Hls(...)
CreatesHls(a) == a.type = "hls" /\ hlsSupported

\* one run of the effect for source a, in this browser
RunEffect(a, insts, src0, cp) ==
  LET r == Attach(a, insts, src0, cp, hlsSupported, nativeHls)
  IN  /\ hlsInstances' = r.hlsInstances
      /\ effectHls' = r.effectHls
      /\ elSrc' = r.elSrc
      /\ canPlay' = r.canPlay

(***************************************************************************)
(* Actions.                                                                *)
(***************************************************************************)
\* onChange of the search box: setQuery(e.target.value)
SetQuery(q) ==
  /\ q # query
  /\ query' = q
  /\ UNCHANGED <<videos, activeTag, open, active, canPlay, elSrc, hlsInstances,
                 effectHls, playing, hlsSupported, nativeHls>>

\* onPick of a tag button, or of the All button (null)
SetActiveTag(t) ==
  /\ t # activeTag
  /\ activeTag' = t
  /\ UNCHANGED <<videos, query, open, active, canPlay, elSrc, hlsInstances,
                 effectHls, playing, hlsSupported, nativeHls>>

\* onOpen of a visible card: setOpen(v). With no player mounted this mounts
\* VideoPlayer (useState(video.sources[0]), useState(false), first effect run);
\* with a player mounted it only replaces the video prop.
OpenVideo(i) ==
  /\ i \in 1..Len(videos)
  /\ i # open
  /\ \E k \in 1..Len(filtered) : filtered[k] = videos[i]
  /\ open' = i
  /\ IF open = 0
     THEN /\ CreatesHls(videos[i].sources[1]) => Len(hlsInstances) < MaxHls
          /\ active' = videos[i].sources[1]
          /\ RunEffect(active', hlsInstances, elSrc, FALSE)
          /\ playing' = FALSE
     ELSE UNCHANGED <<active, canPlay, elSrc, hlsInstances, effectHls, playing>>
  /\ UNCHANGED <<videos, query, activeTag, hlsSupported, nativeHls>>

\* onSelect of a source button: setActive(s); the effect depends on [active],
\* so the cleanup of the previous run and then the effect run for s
SelectSource(k) ==
  /\ open # 0
  /\ k \in 1..Len(videos[open].sources)
  /\ videos[open].sources[k] # active
  /\ CreatesHls(videos[open].sources[k]) => Len(hlsInstances) < MaxHls
  /\ active' = videos[open].sources[k]
  /\ RunEffect(active', CleanupHls(hlsInstances, effectHls), CleanupSrc(elSrc), canPlay)
  /\ playing' = CleanupPlaying(playing)
  /\ UNCHANGED <<videos, query, activeTag, open, hlsSupported, nativeHls>>

\* onClose: setOpen(null) unmounts VideoPlayer, which runs the cleanup
CloseVideo ==
  /\ open # 0
  /\ open' = 0
  /\ active' = NoSource
  /\ canPlay' = FALSE
  /\ hlsInstances' = CleanupHls(hlsInstances, effectHls)
  /\ effectHls' = 0
  /\ elSrc' = CleanupSrc(elSrc)
  /\ playing' = CleanupPlaying(playing)
  /\ UNCHANGED <<videos, query, activeTag, hlsSupported, nativeHls>>

\* the element is rendered with the controls attribute, whatever canPlay is,
\* App.tsx:326-333: its play button is usable while the player is mounted
PlayEnabled == open # 0

\* the user presses play in the element's native controls
Play ==
  /\ PlayEnabled
  /\ ~playing
  /\ playing' = TRUE
  /\ UNCHANGED <<videos, query, activeTag, open, active, canPlay, elSrc,
                 hlsInstances, effectHls, hlsSupported, nativeHls>>

\* instances that can still emit events: hls.destroy() removes every listener
Emitting(h) == hlsInstances[h].state = "loading"

\* Hls.Events.MANIFEST_PARSED of instance h: () => setCanPlay(true)
ManifestParsed(h) ==
  /\ h \in 1..Len(hlsInstances)
  /\ Emitting(h)
  /\ hlsInstances' = [hlsInstances EXCEPT ![h].state = "parsed"]
  /\ canPlay' = IF open # 0 THEN TRUE ELSE canPlay
  /\ UNCHANGED <<videos, query, activeTag, open, active, elSrc, effectHls,
                 playing, hlsSupported, nativeHls>>

\* Hls.Events.ERROR of instance h while it loads or parses the playlist:
\* the effect registers no listener for it
HlsError(h) ==
  /\ h \in 1..Len(hlsInstances)
  /\ Emitting(h)
  /\ hlsInstances' = [hlsInstances EXCEPT ![h].state = "error"]
  /\ UNCHANGED <<videos, query, activeTag, open, active, canPlay, elSrc,
                 effectHls, playing, hlsSupported, nativeHls>>

(***************************************************************************)
(* Specifications.                                                         *)
(***************************************************************************)
Closed ==
  /\ open = 0
  /\ active = NoSource
  /\ canPlay = FALSE
  /\ elSrc = ""
  /\ hlsInstances = <<>>
  /\ effectHls = 0
  /\ playing = FALSE

\* the playback session on the shipped catalog, in any browser
Init ==
  /\ videos = VIDEOS
  /\ query = <<>>
  /\ activeTag = Null
  /\ Closed
  /\ hlsSupported \in BOOLEAN
  /\ nativeHls \in BOOLEAN

Next ==
  \/ \E i \in 1..Len(videos) : OpenVideo(i)
  \/ \E k \in 1..(IF open = 0 THEN 0 ELSE Len(videos[open].sources)) : SelectSource(k)
  \/ CloseVideo
  \/ Play
  \/ \E h \in 1..MaxHls : ManifestParsed(h)
  \/ \E h \in 1..MaxHls : HlsError(h)

Spec == Init /\ [][Next]_vars

\* the filter and the tag vocabulary on every catalog, query and tag
FilterInit ==
  /\ videos \in Catalogs
  /\ query = <<>>
  /\ activeTag = Null
  /\ Closed
  /\ hlsSupported = TRUE
  /\ nativeHls = FALSE

FilterNext ==
  \/ \E q \in QueryEdits(query) : SetQuery(q)
  \/ \E t \in SeqToSet(tagButtons) \cup {Null} : SetActiveTag(t)

FilterSpec == FilterInit /\ [][FilterNext]_vars

(***************************************************************************)
(* Properties of the catalog filter and the tag vocabulary (FilterSpec).   *)
(***************************************************************************)
\* the query as the specification normalizes it: trimmed and case-folded
NormalizedQuery(q) == ToLowerCase(Trim(q))

\* item v contains the normalized query n in its title, its description or
\* its tags joined as text
ContainsQuery(v, n) ==
  \/ Includes(ToLowerCase(v.title), n)
  \/ v.description # Undefined /\ Includes(ToLowerCase(v.description), n)
  \/ v.tags # NoTags /\ Includes(ToLowerCase(Join(v.tags)), n)

InList(v, list) == \E k \in 1..Len(list) : list[k] = v

\* every returned item contains the query, every other item does not
ReturnsExactlyMatches(list) ==
  \A i \in 1..Len(videos) :
     InList(videos[i], list) <=> ContainsQuery(videos[i], NormalizedQuery(query))

\* C1: for every catalog, query and tag selection, the items the filter
\* returns are exactly the items that contain the query (case-insensitively)
\* in title, description or tags.
C1_ReturnsExactlyMatches ==
  ReturnsExactlyMatches(filtered) /\ ReturnsExactlyMatches(filteredHook)

\* list is a subsequence of all: its items are items of all at strictly
\* increasing positions, so each at most once and in the same relative order
IsSubsequence(list, all) ==
  \E f \in [1..Len(list) -> 1..Len(all)] :
     /\ \A i \in 1..Len(list) : all[f[i]] = list[i]
     /\ \A i, j \in 1..Len(list) : i < j => f[i] < f[j]

\* C2: after any sequence of query edits and tag selections the visible list
\* is a subsequence of the catalog.
C2_VisibleIsSubsequence ==
  IsSubsequence(filtered, videos) /\ IsSubsequence(filteredHook, videos)

\* C2 witness: a query and a tag are set, and the filter kept the later of
\* two items and dropped the earlier one.
C2_Witness ==
  /\ Trim(query) # <<>>
  /\ activeTag # Null
  /\ Len(videos) >= 2
  /\ filtered = <<videos[2]>>

\* the tags carried by at least one item of the catalog
CarriedTags ==
  UNION { SeqToSet(videos[i].tags) : i \in {j \in 1..Len(videos) : videos[j].tags # NoTags} }

\* the items of the catalog whose tag set includes t, in catalog order
ItemsTagged(t) ==
  SelectSeq(videos, LAMBDA v : v.tags # NoTags /\ t \in SeqToSet(v.tags))

\* C3: with an empty query and a selected tag t that some item carries, the
\* filter returns exactly the items whose tag set includes t, a subset of
\* what it returns with no tag selected.
C3_TagSelectsTagged ==
  (query = <<>> /\ activeTag \in CarriedTags) =>
     /\ filtered = ItemsTagged(activeTag)
     /\ filteredHook = ItemsTagged(activeTag)
     /\ SeqToSet(filtered) \subseteq SeqToSet(useFilteredVideos(videos, <<>>, Null))
     /\ SeqToSet(filteredHook) \subseteq SeqToSet(hookFilteredVideos(videos, <<>>, Null))

\* C4: the filter sees the query only through its trimmed, case-folded form,
\* and a query that is empty after trimming lets every item pass the text
\* stage.
C4_QueryNormalized ==
  /\ filtered = useFilteredVideos(videos, NormalizedQuery(query), activeTag)
  /\ filteredHook = hookFilteredVideos(videos, NormalizedQuery(query), activeTag)
  /\ Trim(query) = <<>> =>
       /\ filtered = useFilteredVideos(videos, <<>>, activeTag)
       /\ filteredHook = hookFilteredVideos(videos, <<>>, activeTag)

\* tags is the union of the catalog's tag sets, without duplicates, in
\* lexicographic order
IsVocabulary(tags) ==
  /\ SeqToSet(tags) = CarriedTags
  /\ \A i, j \in 1..Len(tags) : i < j => StrLess(tags[i], tags[j])

\* C5: the tag vocabulary shown for filtering is the sorted, duplicate-free
\* union of the tag sets of every catalog item, whatever query or tag is
\* selected.
C5_VocabularySortedUnion ==
  IsVocabulary(tagButtons) /\ IsVocabulary(homeTagButtons)

(***************************************************************************)
(* Properties of the playback session (Spec).                              *)
(***************************************************************************)
\* streaming-client instances that were created and not destroyed
LiveHls == {h \in 1..Len(hlsInstances) : hlsInstances[h].state # "destroyed"}

\* playback resources attached to the element
Attached == Cardinality(LiveHls) + (IF elSrc # "" THEN 1 ELSE 0)

\* C6: in an open session at most one playback resource is attached to the
\* element: one live streaming client or one directly assigned URI.
C6_AtMostOneAttachment == open # 0 => Attached <= 1

\* C6 witness: after two switches away from an adaptive source exactly the
\* third streaming client is live.
C6_Witness ==
  /\ open # 0
  /\ Len(hlsInstances) = 3
  /\ LiveHls = {3}

\* C7: an adaptive active source with neither the client library nor native
\* support leaves ready = false and no URI on the element.
C7_UnsupportedNotReady ==
  (open # 0 /\ active.type = "hls" /\ ~hlsSupported /\ ~nativeHls) =>
     (canPlay = FALSE /\ elSrc = "")

\* C7 witness: the unsupported adaptive source of the item that opens on its
\* MP4 is active, which only a switch away from the playing MP4 reaches.
C7_Witness ==
  /\ open = 4
  /\ active = videos[4].sources[2]
  /\ ~hlsSupported
  /\ ~nativeHls
  /\ canPlay = FALSE

\* what VideoPlayer renders from: its props and state
UiState == <<open, active, canPlay>>

\* C8: when the streaming client fails to load or parse its playlist, the
\* session moves to a playback-error state the UI can tell from waiting.
C8_LoadErrorSurfaced ==
  [][(\E h \in 1..MaxHls : HlsError(h)) => UiState' # UiState]_vars

\* C9: the active source of an open session is one of the sources of the
\* item the player shows.
C9_ActiveInItemSources ==
  open # 0 => \E k \in 1..Len(videos[open].sources) : videos[open].sources[k] = active

\* C10: while the active source is attached through the streaming client,
\* ready is true only once that client has reported its manifest parsed.
C10_ReadyOnlyAfterManifest ==
  (open # 0 /\ active.type = "hls" /\ effectHls # 0 /\ canPlay) =>
     hlsInstances[effectHls].state = "parsed"

\* the streaming client of instance h is not the one the current run of the
\* effect created: its attachment was torn down by a source switch or a close
TornDown(h) == h \in 1..Len(hlsInstances) /\ h # effectHls

\* C11: a manifest-parsed callback of a streaming client whose attachment
\* was torn down never changes the ready flag of the current session.
C11_StaleCallbackIgnored ==
  [][\A h \in 1..MaxHls : (TornDown(h) /\ ManifestParsed(h)) => canPlay' = canPlay]_vars

\* C11 witness: in one session the first adaptive source was replaced by the
\* second before its manifest was parsed; the first client is torn down with
\* its callback outstanding and the session is not ready.
C11_Witness ==
  /\ open = 5
  /\ active = videos[5].sources[2]
  /\ Len(hlsInstances) = 2
  /\ effectHls = 2
  /\ hlsInstances[1].state = "destroyed"
  /\ hlsInstances[2].state = "loading"
  /\ canPlay = FALSE

\* a step that leaves the attachment of an open session: the viewer is
\* closed, another source is selected, or another item replaces the shown one
ExitsAttachment == open # 0 /\ (open' # open \/ active' # active)

\* the attachment left by the step is torn down in full: its streaming
\* client is destroyed, its URI is off the element and playback is stopped
OldAttachmentTornDown ==
  /\ effectHls # 0 => hlsInstances'[effectHls].state = "destroyed"
  /\ elSrc # "" => elSrc' # elSrc
  /\ playing' = FALSE

\* C12: every exit from an attachment (close, source change, replacement of
\* the session) runs the full teardown, and after close no streaming client
\* is live and the element has no source.
C12_TeardownOnEveryExit ==
  [][ExitsAttachment =>
       /\ OldAttachmentTornDown
       /\ open' = 0 => (LiveHls' = {} /\ elSrc' = "")]_vars

\* C13: in no state with ready = false is the start-playback affordance of
\* the player enabled.
C13_PlayGatedOnReady == ~canPlay => ~PlayEnabled

====
